---- MODULE Spec2Model ----
(***************************************************************************)
(* Query strategies of yall/querystrategies.py as a state machine.         *)
(*                                                                         *)
(* Numbers are exact rationals [n, d] extended with the IEEE-754 special   *)
(* values the numpy operations of the source can produce:                  *)
(*   d > 0        the rational n/d in lowest terms                         *)
(*   d = 0, n = 1   +inf     d = 0, n = -1   -inf     d = 0, n = 0   nan   *)
(* A numpy value is [shape, v]: a 1-d array ("vector") or a 0-d scalar.    *)
(***************************************************************************)
EXTENDS Integers, Sequences, FiniteSets

VARIABLES U, L, clf, us, comb, ret, calls

vars == <<U, L, clf, us, comb, ret, calls>>

(* ------------------------------ bounds -------------------------------- *)
\* largest unlabeled set handed to a strategy
MaxU == 2
\* largest labeled set the driving loop starts from
MaxL == 1
\* largest number of positional arguments of a call
MaxArgs == 4
\* most runs of the model-change wrapper that consume a recorded
\* chosen_index between two removals from U
MaxCalls == 2

(* --------------------------- float arithmetic ------------------------- *)
Abs(x) == IF x < 0 THEN -x ELSE x

Sign(x) == IF x < 0 THEN -1 ELSE IF x > 0 THEN 1 ELSE 0

RECURSIVE GCD(_, _)
GCD(a, b) == IF b = 0 THEN a ELSE GCD(b, a % b)

Rat(n, d) ==
    IF d = 0 THEN [n |-> Sign(n), d |-> 0]
    ELSE LET g == GCD(Abs(n), Abs(d))
         IN  [n |-> (Sign(d) * n) \div g, d |-> Abs(d) \div g]

NaN == [n |-> 0, d |-> 0]
Zero == [n |-> 0, d |-> 1]
One == [n |-> 1, d |-> 1]
Half == [n |-> 1, d |-> 2]

IsNaN(a) == a.d = 0 /\ a.n = 0
IsFinite(a) == a.d > 0

RAdd(a, b) ==
    IF IsNaN(a) \/ IsNaN(b) THEN NaN
    ELSE IF a.d = 0 /\ b.d = 0 THEN (IF a.n = b.n THEN a ELSE NaN)
    ELSE IF a.d = 0 THEN a
    ELSE IF b.d = 0 THEN b
    ELSE Rat(a.n * b.d + b.n * a.d, a.d * b.d)

RNeg(a) == [n |-> -a.n, d |-> a.d]

RSub(a, b) == RAdd(a, RNeg(b))

RMul(a, b) == Rat(a.n * b.n, a.d * b.d)

\* a / b as numpy's true_divide: x/0 is +-inf, 0/0 is nan, x/inf is 0
RDiv(a, b) ==
    IF b.n < 0 THEN Rat(-(a.n * b.d), -(a.d * b.n))
    ELSE Rat(a.n * b.d, a.d * b.n)

RLt(a, b) ==
    IF IsNaN(a) \/ IsNaN(b) THEN FALSE
    ELSE IF a.d = 0 /\ b.d = 0 THEN a.n < b.n
    ELSE a.n * b.d < b.n * a.d

\* == of two floats: nan equals nothing
REq(a, b) == ~IsNaN(a) /\ ~IsNaN(b) /\ a = b

RLe(a, b) == RLt(a, b) \/ REq(a, b)

RECURSIVE RPow(_, _)
\* a ** k for a whole exponent k >= 0
RPow(a, k) == IF k = 0 THEN One ELSE RMul(a, RPow(a, k - 1))

(* ----------------------------- numpy values --------------------------- *)
Vec(v) == [shape |-> "vector", v |-> v]
Scalar(x) == [shape |-> "scalar", v |-> <<x>>]
NoValue == [shape |-> "none", v |-> <<>>]

IsVec(a) == a.shape = "vector"

\* np.zeros(shape=scores.shape)
np_zeros(a) == [shape |-> a.shape, v |-> [i \in 1..Len(a.v) |-> Zero]]

\* numpy broadcasting of two operands that are 1-d arrays or scalars
Broadcastable(a, b) ==
    \/ ~IsVec(a)
    \/ ~IsVec(b)
    \/ Len(a.v) = Len(b.v)
    \/ Len(a.v) = 1
    \/ Len(b.v) = 1

Elem(a, i) == IF Len(a.v) = 1 THEN a.v[1] ELSE a.v[i]

\* a length-1 operand stretches to the other's length (which may be 0)
Broadcast(Op(_, _), a, b) ==
    LET n == IF Len(a.v) = 1 THEN Len(b.v) ELSE Len(a.v)
    IN  [shape |-> IF IsVec(a) \/ IsVec(b) THEN "vector" ELSE "scalar",
         v |-> [i \in 1..n |-> Op(Elem(a, i), Elem(b, i))]]

\* np.min / np.max: a nan anywhere makes the result nan
RECURSIVE np_min(_)
np_min(s) ==
    IF Len(s) = 1 THEN s[1]
    ELSE LET m == np_min(Tail(s))
         IN  IF IsNaN(s[1]) \/ IsNaN(m) THEN NaN
             ELSE IF RLt(m, s[1]) THEN m ELSE s[1]

RECURSIVE np_max(_)
np_max(s) ==
    IF Len(s) = 1 THEN s[1]
    ELSE LET m == np_max(Tail(s))
         IN  IF IsNaN(s[1]) \/ IsNaN(m) THEN NaN
             ELSE IF RLt(s[1], m) THEN m ELSE s[1]

\* np.argmax of a non-empty array, as a 0-based index: the first nan if there
\* is one, else the first maximum; 0 for a 0-d scalar
np_argmax(a) ==
    LET s == a.v
        nans == {i \in 1..Len(s) : IsNaN(s[i])}
        best == {i \in 1..Len(s) : \A j \in 1..Len(s) : RLe(s[j], s[i])}
        pick(S) == CHOOSE i \in S : \A j \in S : i <= j
    IN  IF nans # {} THEN pick(nans) - 1 ELSE pick(best) - 1

np_argmin(a) ==
    LET s == a.v
        nans == {i \in 1..Len(s) : IsNaN(s[i])}
        best == {i \in 1..Len(s) : \A j \in 1..Len(s) : RLe(s[i], s[j])}
        pick(S) == CHOOSE i \in S : \A j \in S : i <= j
    IN  IF nans # {} THEN pick(nans) - 1 ELSE pick(best) - 1

\* np.delete(arr, idx, axis=0) for a 0-based idx that is in range
\* (negative idx counts from the end)
np_delete(s, idx) ==
    LET k == IF idx < 0 THEN idx + Len(s) + 1 ELSE idx + 1
    IN  [i \in 1..(Len(s) - 1) |-> IF i < k THEN s[i] ELSE s[i + 1]]

InRange(s, idx) == idx >= -Len(s) /\ idx < Len(s)

(* -------------------------- inputs of the calls ------------------------ *)
\* one feature per row (U.X and L.X are n x 1 matrices)
Feat == 0..1

\* the classifier's probability of class 1 for a row
ProbGrid == {Zero, Half, One}

\* what np.empty(1) may hold: memory that was never written
Garbage == {Zero, Rat(2, 1), NaN}

\* the reads of uninitialized memory of a call that makes none that matter
NoGarbage == <<Zero, Zero>>

\* sequences over S of length lo..hi
SeqsOf(S, lo, hi) == UNION {[1..n -> S] : n \in lo..hi}

(* ---------------------------- QueryStrategy --------------------------- *)
Res(status, value, inst, probe) ==
    [status |-> status, value |-> value, us |-> inst, probe |-> probe]

Raise(exc, inst) == Res(exc, NoValue, inst, <<>>)

\* an arity check that lets extra arguments through
get_args_atleast(nargs) == nargs >= 3

\* QueryStrategy.get_args: TRUE when the namedtuple is built
get_args(nargs) == nargs = 3

\* QueryStrategy.score
QueryStrategy_score(inst) == Raise("NotImplementedError", inst)

\* QueryStrategy.choose
QueryStrategy_choose(scores) == [status |-> "NotImplementedError", index |-> -1]

\* clf.predict_proba(U.X)[:, 1]
predict_proba(c, X) == [i \in 1..Len(X) |-> c[X[i]]]

(* ------------------------- stateless strategies ----------------------- *)
\* Random.score
Random_score(inst, nargs, X) ==
    IF ~get_args(nargs) THEN Raise("ValueError", inst)
    ELSE Res("ok", Vec([i \in 1..Len(X) |-> Rat(i - 1, 1)]), inst, <<>>)

RECURSIVE RSum(_)
RSum(s) == IF s = <<>> THEN Zero ELSE RAdd(s[1], RSum(Tail(s)))

\* the entries of s at the positions other than i
Others(s, i) == [j \in 1..(Len(s) - 1) |-> IF j < i THEN s[j] ELSE s[j + 1]]

\* Density.score with metric='euclidean' (|x - y| for one feature);
\* g is what the uninitialized np.empty(1) happens to hold
Density_score(inst, nargs, X, g) ==
    IF ~get_args(nargs) THEN Raise("ValueError", inst)
    ELSE IF Len(X) = 1 THEN Res("ok", Vec(<<g>>), inst, <<>>)
    ELSE LET num_x == Len(X)
             sim(i) == [j \in 1..num_x |->
                           RDiv(One, RAdd(One, Rat(Abs(X[i] - X[j]), 1)))]
             mean(i) == RDiv(RSum(Others(sim(i), i)), Rat(num_x - 1, 1))
         IN  Res("ok", Vec([i \in 1..num_x |-> mean(i)]), inst, <<>>)

(* ------------------------- UncertaintySampler ------------------------- *)
None == <<>>
Some(x) == <<x>>

\* UncertaintySampler.__init__ and the subclass __init__
UncertaintySampler_init(cls, model_change) ==
    [cls |-> cls, model_change |-> model_change,
     previous_scores |-> None, chosen_index |-> None, U_0_size |-> -1]

\* LeastConfidence.__score: 1 - max(p, 1 - p) per row
LeastConfidence_score(inst, nargs, X, c) ==
    IF ~get_args(nargs) THEN Raise("ValueError", inst)
    ELSE LET probs == predict_proba(c, X)
             rowmax(p) == IF RLt(p, RSub(One, p)) THEN RSub(One, p) ELSE p
         IN  Res("ok", Vec([i \in 1..Len(X) |-> RSub(One, rowmax(probs[i]))]),
                 inst, <<>>)

\* a latch that is overwritten by every call
LatchU0_always(inst, X) == [inst EXCEPT !.U_0_size = Len(X)]

\* the U_0_size latch of LeastConfidenceDynamicBias.__score
LatchU0(inst, X) ==
    IF inst.U_0_size < 0 THEN [inst EXCEPT !.U_0_size = Len(X)] ELSE inst

RECURSIVE SumY(_)
SumY(y) == IF y = <<>> THEN 0 ELSE y[1] + SumY(Tail(y))

\* p_max = w_b * (1 - pp) + w_u * 0.5 with w_b = 1 - w_u
P_max(pp, w_u) == RAdd(RMul(RSub(One, w_u), RSub(One, pp)), RMul(w_u, Half))

\* np.where(probs < p_max, probs / p_max, (1 - probs) / p_max) for one row
BiasScore(p, p_max) ==
    IF RLt(p, p_max) THEN RDiv(p, p_max) ELSE RDiv(RSub(One, p), p_max)

\* LeastConfidenceDynamicBias.__score once U_0_size is latched
DynamicBias_scores(inst, X, y, c) ==
    IF Len(y) = 0 THEN Raise("ZeroDivisionError", inst)
    ELSE IF inst.U_0_size = 0 THEN Raise("ZeroDivisionError", inst)
    ELSE LET p_max == P_max(Rat(SumY(y), Len(y)), Rat(Len(y), inst.U_0_size))
             probs == predict_proba(c, X)
         IN  Res("ok", Vec([i \in 1..Len(X) |-> BiasScore(probs[i], p_max)]),
                 inst, <<>>)

\* LeastConfidenceDynamicBias.__score
LeastConfidenceDynamicBias_score(inst, nargs, X, y, c) ==
    IF ~get_args(nargs) THEN Raise("ValueError", inst)
    ELSE DynamicBias_scores(LatchU0(inst, X), X, y, c)

\* the score_func a subclass hands to model_change_wrapper
score_func(inst, nargs, X, y, c) ==
    IF inst.cls = "LeastConfidence" THEN LeastConfidence_score(inst, nargs, X, c)
    ELSE LeastConfidenceDynamicBias_score(inst, nargs, X, y, c)

\* a wrapper that forgets to delete the chosen entry
Retained_kept(inst, scores) ==
    IF inst.chosen_index = None THEN np_zeros(scores)
    ELSE inst.previous_scores[1]

\* the retained vector the wrapper subtracts: zeros on the first run, else
\* the retained scores without the entry at chosen_index
Retained(inst, scores) ==
    IF inst.chosen_index = None THEN np_zeros(scores)
    ELSE Vec(np_delete(inst.previous_scores[1].v, inst.chosen_index[1]))

\* the lengths the wrapper brings together in its subtraction
Probe(prev, X) == <<[prev_len |-> Len(prev.v), u_len |-> Len(X)]>>

\* wrapper: self.previous_scores = scores; return scores
wrapper_retain(inst, scores, probe) ==
    Res("ok", scores, [inst EXCEPT !.previous_scores = Some(scores)], probe)

\* wrapper: scores = scores - (w_o * self.previous_scores), with
\* self.previous_scores already rebound to prev
wrapper_subtract(inst, raw, prev, w_o, X) ==
    IF ~Broadcastable(raw, prev)
    THEN Res("ValueError", NoValue,
             [inst EXCEPT !.previous_scores = Some(prev)], Probe(prev, X))
    ELSE wrapper_retain(inst,
                        Broadcast(RSub, raw, Broadcast(RMul, Scalar(w_o), prev)),
                        Probe(prev, X))

\* a wrapper that takes a weight of 1 when L is empty
wrapper_scored_coerced(r, X, y) ==
    IF r.status # "ok" THEN r
    ELSE IF r.us.chosen_index # None /\ r.us.previous_scores = None
         THEN Raise("AxisError", r.us)
    ELSE IF r.us.chosen_index # None
            /\ ~InRange(r.us.previous_scores[1].v, r.us.chosen_index[1])
         THEN Raise("IndexError", r.us)
    ELSE wrapper_subtract(r.us, r.value, Retained(r.us, r.value),
                          IF Len(y) = 0 THEN One ELSE Rat(1, Len(y)), X)

\* wrapper after scores = score_func(*args) gave r
wrapper_scored(r, X, y) ==
    IF r.status # "ok" THEN r
    ELSE IF Len(y) = 0 THEN Raise("ZeroDivisionError", r.us)
    ELSE IF r.us.chosen_index # None /\ r.us.previous_scores = None
         THEN Raise("AxisError", r.us)
    ELSE IF r.us.chosen_index # None
            /\ ~InRange(r.us.previous_scores[1].v, r.us.chosen_index[1])
         THEN Raise("IndexError", r.us)
    ELSE wrapper_subtract(r.us, r.value, Retained(r.us, r.value),
                          Rat(1, Len(y)), X)

\* UncertaintySampler.model_change_wrapper.<locals>.wrapper
wrapper(inst, nargs, X, y, c) ==
    IF ~get_args(nargs) THEN Raise("ValueError", inst)
    ELSE wrapper_scored(score_func(inst, 3, X, y, c), X, y)

\* self.score as bound by the subclass __init__
UncertaintySampler_score(inst, nargs, X, y, c) ==
    IF inst.model_change THEN wrapper(inst, nargs, X, y, c)
    ELSE score_func(inst, nargs, X, y, c)

\* UncertaintySampler.choose
UncertaintySampler_choose(scores) == [status |-> "ok", index |-> np_argmax(scores)]

(* ------------------------------ combiners ----------------------------- *)
\* a float the exact rationals of this model cannot hold (an irrational power
\* or weight): finite and not tracked further
Inexact == [n |-> 0, d |-> -1]

\* all(scores == scores[0]) for a non-empty array (scores[0] of an empty
\* one raises IndexError, which the score operators below report)
AllEqualFirst(s) == \A i \in 1..Len(s) : REq(s[i], s[1])

\* a normaliser that divides by the range without shifting by the minimum
CombinedSampler_normalize_unshifted(scores) ==
    IF AllEqualFirst(scores.v)
    THEN IF RLt(scores.v[1], One) THEN scores
         ELSE Scalar(RDiv(One, scores.v[1]))
    ELSE Broadcast(RDiv, scores,
                   Scalar(RSub(np_max(scores.v), np_min(scores.v))))

\* CombinedSampler._normalize_scores
CombinedSampler_normalize_scores(scores) ==
    IF AllEqualFirst(scores.v)
    THEN IF RLt(scores.v[1], One) THEN scores
         ELSE Scalar(RDiv(One, scores.v[1]))
    ELSE LET lo == Scalar(np_min(scores.v))
             num == Broadcast(RSub, scores, lo)
             denom == Scalar(RSub(np_max(scores.v), np_min(scores.v)))
         IN  Broadcast(RDiv, num, denom)

\* DistDivSampler._normalize_scores
DistDivSampler_normalize_scores(scores) ==
    IF AllEqualFirst(scores.v)
    THEN IF RLt(scores.v[1], One) THEN scores
         ELSE Scalar(RDiv(One, scores.v[1]))
    ELSE LET lo == Scalar(np_min(scores.v))
             num == Broadcast(RSub, scores, lo)
             denom == Scalar(RSub(np_max(scores.v), np_min(scores.v)))
         IN  Broadcast(RDiv, num, denom)

Fixed(x) == [dynamic |-> FALSE, val |-> x]
Dynamic == [dynamic |-> TRUE, val |-> Zero]

NoComb == [exists |-> FALSE, cls |-> "none", qs1 |-> "None", qs2 |-> "None",
           param |-> Dynamic]

\* a check that raises only when both children are missing
MissingChild_both(qs1, qs2) == qs1 = "None" /\ qs2 = "None"

\* the check both combiner constructors start with
MissingChild(qs1, qs2) == qs1 = "None" \/ qs2 = "None"

\* CombinedSampler.__init__ / DistDivSampler.__init__: the instance built, or
\* the instance slot left as it was when the constructor raises
Combiner_init(old, cls, qs1, qs2, param) ==
    IF MissingChild(qs1, qs2) THEN [status |-> "ValueError", comb |-> old]
    ELSE [status |-> "ok",
          comb |-> [exists |-> TRUE, cls |-> cls, qs1 |-> qs1, qs2 |-> qs2,
                    param |-> param]]

\* qs.score(*args) of a child strategy
Child_score(name, inst, nargs, X, y, c, g) ==
    IF name = "us" THEN UncertaintySampler_score(inst, nargs, X, y, c)
    ELSE IF name = "Random" THEN Random_score(inst, nargs, X)
    ELSE IF name = "Density" THEN Density_score(inst, nargs, X, g)
    ELSE QueryStrategy_score(inst)

\* x ** b for a float b >= 0
Power(x, b) ==
    IF b.d = 1 THEN RPow(x, b.n)
    ELSE IF IsNaN(x) THEN NaN
    ELSE IF x.d = 0 THEN [n |-> 1, d |-> 0]
    ELSE IF x.n < 0 THEN NaN
    ELSE IF x = Zero \/ x = One THEN x
    ELSE Inexact

\* a * p where p is the result of Power
TimesPower(a, p) ==
    IF p # Inexact THEN RMul(a, p)
    ELSE IF IsNaN(a) THEN NaN
    ELSE IF a.d = 0 THEN a
    ELSE IF a = Zero THEN Zero
    ELSE Inexact

\* CombinedSampler._compute_beta, after get_args: 2 * (|U| / |L|)
compute_beta(X, y) == Rat(2 * Len(X), Len(y))

\* qs2_scores ** beta
PowerOf(scores, beta) ==
    [shape |-> scores.shape,
     v |-> [i \in 1..Len(scores.v) |-> Power(scores.v[i], beta)]]

\* CombinedSampler.score: scores = qs1_scores * (qs2_scores ** beta)
Combined_product(qs1_scores, pw, inst, probe) ==
    IF ~Broadcastable(qs1_scores, pw) THEN Res("ValueError", NoValue, inst, probe)
    ELSE Res("ok", Broadcast(TimesPower, qs1_scores, pw), inst, probe)

\* CombinedSampler.score after self.qs2.score(*args) gave r2
Combined_qs2(beta, qs1_scores, probe1, r2) ==
    IF r2.status # "ok" THEN Res(r2.status, NoValue, r2.us, probe1 \o r2.probe)
    ELSE IF Len(r2.value.v) = 0
         THEN Res("IndexError", NoValue, r2.us, probe1 \o r2.probe)
    ELSE Combined_product(qs1_scores,
                          PowerOf(CombinedSampler_normalize_scores(r2.value), beta),
                          r2.us, probe1 \o r2.probe)

\* CombinedSampler.score after self.qs1.score(*args) gave r1
Combined_qs1(cb, beta, r1, nargs, X, y, c, g) ==
    IF r1.status # "ok" THEN r1
    ELSE IF Len(r1.value.v) = 0 THEN Raise("IndexError", r1.us)
    ELSE Combined_qs2(beta, CombinedSampler_normalize_scores(r1.value), r1.probe,
                      Child_score(cb.qs2, r1.us, nargs, X, y, c, g[2]))

\* CombinedSampler.score
CombinedSampler_score(cb, inst, nargs, X, y, c, g) ==
    IF cb.param.dynamic /\ ~get_args(nargs) THEN Raise("ValueError", inst)
    ELSE IF cb.param.dynamic /\ Len(y) = 0 THEN Raise("ZeroDivisionError", inst)
    ELSE Combined_qs1(cb,
                      IF cb.param.dynamic THEN compute_beta(X, y) ELSE cb.param.val,
                      Child_score(cb.qs1, inst, nargs, X, y, c, g[1]),
                      nargs, X, y, c, g)

\* lam * a + (1 - lam) * b for the dynamic lam of _compute_lambda, an
\* irrational weight strictly between 0 and 1
InexactBlend(a, b) ==
    IF IsFinite(a) /\ IsFinite(b) THEN Inexact
    ELSE RAdd(RMul(Half, a), RMul(Half, b))

\* (lam * a) + ((1 - lam) * b) for a fixed float lam
FixedBlend(lam, a, b) == RAdd(RMul(lam, a), RMul(RSub(One, lam), b))

\* DistDivSampler.score: scores = (lam * qs1_scores) + ((1 - lam) * qs2_scores);
\* _compute_lambda gives (a**r - 1)/(a - 1) with a = 20000 and
\* r = |L|/(|L| + |U|), which is 0 exactly when L is empty
DistDiv_blend(cb, y, qs1_scores, qs2_scores, inst, probe) ==
    LET blend(a, b) == IF ~cb.param.dynamic THEN FixedBlend(cb.param.val, a, b)
                       ELSE IF Len(y) = 0 THEN FixedBlend(Zero, a, b)
                       ELSE InexactBlend(a, b)
    IN  IF ~Broadcastable(qs1_scores, qs2_scores)
        THEN Res("ValueError", NoValue, inst, probe)
        ELSE Res("ok", Broadcast(blend, qs1_scores, qs2_scores), inst, probe)

\* DistDivSampler.score after self.qs2.score(*args) gave r2
DistDiv_qs2(cb, y, qs1_scores, probe1, r2) ==
    IF r2.status # "ok" THEN Res(r2.status, NoValue, r2.us, probe1 \o r2.probe)
    ELSE IF Len(r2.value.v) = 0
         THEN Res("IndexError", NoValue, r2.us, probe1 \o r2.probe)
    ELSE DistDiv_blend(cb, y, qs1_scores,
                       DistDivSampler_normalize_scores(r2.value),
                       r2.us, probe1 \o r2.probe)

\* DistDivSampler.score after self.qs1.score(*args) gave r1
DistDiv_qs1(cb, r1, nargs, X, y, c, g) ==
    IF r1.status # "ok" THEN r1
    ELSE IF Len(r1.value.v) = 0 THEN Raise("IndexError", r1.us)
    ELSE DistDiv_qs2(cb, y, DistDivSampler_normalize_scores(r1.value), r1.probe,
                     Child_score(cb.qs2, r1.us, nargs, X, y, c, g[2]))

\* DistDivSampler.score
DistDivSampler_score(cb, inst, nargs, X, y, c, g) ==
    IF cb.param.dynamic /\ ~get_args(nargs) THEN Raise("ValueError", inst)
    ELSE IF cb.param.dynamic /\ Len(y) + Len(X) = 0
         THEN Raise("ZeroDivisionError", inst)
    ELSE DistDiv_qs1(cb, Child_score(cb.qs1, inst, nargs, X, y, c, g[1]),
                     nargs, X, y, c, g)

\* strategy.score(*args) for any strategy object of the model; g[1] and g[2]
\* are what the first and the second np.empty(1) of the call happen to hold
Score(name, cb, inst, nargs, X, y, c, g) ==
    IF name = "comb"
    THEN IF cb.cls = "CombinedSampler"
         THEN CombinedSampler_score(cb, inst, nargs, X, y, c, g)
         ELSE DistDivSampler_score(cb, inst, nargs, X, y, c, g)
    ELSE Child_score(name, inst, nargs, X, y, c, g[1])

(* -------------------------------- choose ------------------------------ *)
HasInexact(a) == \E i \in 1..Len(a.v) : a.v[i] = Inexact

\* Random.choose: np.random.choice(scores), the element at a drawn position
\* (an index of U when scores come from Random.score)
Random_choose(scores, pick) ==
    [status |-> "ok", index |-> scores.v[(pick % Len(scores.v)) + 1].n]

\* Density.choose
Density_choose(scores) == [status |-> "ok", index |-> np_argmin(scores)]

\* CombinedSampler.choose / DistDivSampler.choose with the default
\* choice_metric np.argmax; pick is the position of the maximum among floats
\* this model does not track
Combiner_choose(scores, pick) ==
    IF HasInexact(scores) THEN [status |-> "ok", index |-> pick % Len(scores.v)]
    ELSE [status |-> "ok", index |-> np_argmax(scores)]

\* strategy.choose(scores); argmax / argmin / random.choice of an empty array
\* raise ValueError
Choose(name, scores, pick) ==
    IF name = "QueryStrategy" THEN QueryStrategy_choose(scores)
    ELSE IF Len(scores.v) = 0 THEN [status |-> "ValueError", index |-> -1]
    ELSE IF name = "Random" THEN Random_choose(scores, pick)
    ELSE IF name = "Density" THEN Density_choose(scores)
    ELSE IF name = "us" THEN UncertaintySampler_choose(scores)
    ELSE Combiner_choose(scores, pick)

(* ------------------------------- the state ---------------------------- *)
Leaves == {"us", "Random", "Density", "QueryStrategy"}
Strategies == Leaves \cup {"comb"}
UncertaintyClasses == {"LeastConfidence", "LeastConfidenceDynamicBias"}
CombinerClasses == {"CombinedSampler", "DistDivSampler"}
\* beta of a CombinedSampler, lam of a DistDivSampler
Params(cls) == IF cls = "CombinedSampler" THEN {Fixed(One), Dynamic}
               ELSE {Fixed(Half), Dynamic}

\* what the caller saw of its last call: the operation, the strategy object,
\* the number of positional arguments, the exception or "ok", the array
\* returned (for choose and _normalize_scores: arg is the array passed), the
\* index returned, and per run of the model-change wrapper the lengths of
\* the retained vector and of U at the subtraction
Ret(op, target, nargs, status, arg, value, index, probe) ==
    [op |-> op, target |-> target, nargs |-> nargs, status |-> status,
     arg |-> arg, value |-> value, index |-> index, probe |-> probe]

\* the state after the strategies are constructed: the caller's unlabeled
\* rows U (one feature each), the labels L.y of its labeled rows, its
\* classifier, one uncertainty sampler, and no combiner yet
Init ==
    /\ U \in SeqsOf(Feat, 1, MaxU)
    /\ L \in SeqsOf({0, 1}, 0, MaxL)
    /\ clf \in [Feat -> ProbGrid]
    /\ us \in {UncertaintySampler_init(k, m) :
                  k \in UncertaintyClasses, m \in BOOLEAN}
    /\ comb = NoComb
    /\ ret = Ret("init", "none", 0, "ok", NoValue, NoValue, -1, <<>>)
    /\ calls = 0

\* calls after a call that gave r: each run of the wrapper that removed the
\* entry at a recorded chosen_index from the retained vector counts
Consumed(inst, r) ==
    IF inst.chosen_index = None THEN calls ELSE calls + Len(r.probe)

\* CombinedSampler(qs1, qs2, beta) / DistDivSampler(qs1, qs2, lam)
Construct(cls, qs1, qs2, param) ==
    /\ ~comb.exists
    /\ \E r \in {Combiner_init(comb, cls, qs1, qs2, param)} :
        /\ comb' = r.comb
        /\ ret' = Ret("construct", cls, 0, r.status, NoValue, NoValue, -1, <<>>)
    /\ UNCHANGED <<U, L, clf, us, calls>>

\* strategy.score(*args) with nargs positional arguments
ScoreCall(name, nargs, g) ==
    /\ name = "comb" => comb.exists
    /\ calls < MaxCalls
    /\ \E r \in {Score(name, comb, us, nargs, U, L, clf, g)} :
        /\ us' = r.us
        /\ ret' = Ret("score", name, nargs, r.status, NoValue, r.value, -1, r.probe)
        /\ calls' = Consumed(us, r)
    /\ UNCHANGED <<U, L, clf, comb>>

\* QueryStrategy.query: score, then choose
QueryCall(name, nargs, g, pick) ==
    /\ name = "comb" => comb.exists
    /\ calls < MaxCalls
    /\ \E r \in {Score(name, comb, us, nargs, U, L, clf, g)} :
       \E ch \in {IF r.status = "ok" THEN Choose(name, r.value, pick)
                  ELSE [status |-> r.status, index |-> -1]} :
        /\ us' = r.us
        /\ ret' = Ret("query", name, nargs, ch.status, NoValue, r.value, ch.index,
                   r.probe)
        /\ calls' = Consumed(us, r)
    /\ UNCHANGED <<U, L, clf, comb>>

\* strategy.choose(scores) on the scores its last score call gave, else on
\* the scores of a pool of two
ChooseCall(name, pick) ==
    /\ name = "comb" => comb.exists
    /\ \E scores \in {IF ret.op = "score" /\ ret.target = name /\ ret.status = "ok"
                      THEN ret.value
                      ELSE Vec(<<Zero, One>>)} :
       \E ch \in {Choose(name, scores, pick)} :
          ret' = Ret("choose", name, 1, ch.status, scores, NoValue, ch.index, <<>>)
    /\ UNCHANGED <<U, L, clf, us, comb, calls>>

\* the caller's loop once an index is chosen: the chosen row leaves U, its
\* label joins L; a loop that honours the hand-off also writes chosen_index
LoopRemove(lbl, record) ==
    /\ ret.op \in {"query", "choose"} /\ ret.status = "ok"
    /\ Len(U) >= 2
    /\ ret.index \in 0..(Len(U) - 1)
    /\ U' = np_delete(U, ret.index)
    /\ L' = Append(L, lbl)
    /\ us' = IF record /\ ret.target = "us" /\ us.model_change
             THEN [us EXCEPT !.chosen_index = Some(ret.index)]
             ELSE us
    /\ ret' = [ret EXCEPT !.op = "remove"]
    /\ calls' = 0
    /\ UNCHANGED <<clf, comb>>

\* the caller refits its classifier between rounds
Retrain(c) ==
    /\ ret.op = "remove"
    /\ clf' = c
    /\ UNCHANGED <<U, L, us, comb, ret, calls>>

Picks == 0..(MaxU - 1)

\* a caller of one uncertainty sampler: calls with three arguments or one
\* too many, and its loop
Next ==
    \/ \E nargs \in {3, MaxArgs} : ScoreCall("us", nargs, NoGarbage)
    \/ \E nargs \in {3, MaxArgs} : QueryCall("us", nargs, NoGarbage, 0)
    \/ \E lbl \in {0, 1}, record \in BOOLEAN : LoopRemove(lbl, record)

Spec == Init /\ [][Next]_vars

(* ---- the driving loop that honours the hand-off of chosen_index ------ *)
InitProtocol == Init /\ us.model_change

\* one score call per round, then the choice, the removal with the hand-off,
\* and the refit
NextProtocol ==
    \/ ret.op \in {"init", "remove"} /\ QueryCall("us", 3, NoGarbage, 0)
    \/ ret.op \in {"init", "remove"} /\ ScoreCall("us", 3, NoGarbage)
    \/ ret.op = "score" /\ ret.status = "ok" /\ ChooseCall("us", 0)
    \/ \E lbl \in {0, 1} : LoopRemove(lbl, TRUE)
    \/ \E c \in [Feat -> ProbGrid] : Retrain(c)

SpecProtocol == InitProtocol /\ [][NextProtocol]_vars

(* ------------------- a caller that composes strategies ---------------- *)
\* the classifiers of the composing callers: class 1 is a coin flip on
\* feature 0
ClfComb == {c \in [Feat -> ProbGrid] : c[0] = Half}

\* their labeled rows are all of class 1
InitComb == Init /\ clf \in ClfComb /\ (\A i \in 1..Len(L) : L[i] = 1)

Children == {"us", "Random", "Density", "None"}

NextComb ==
    \/ \E cls \in CombinerClasses, qs1, qs2 \in Children :
          \E param \in Params(cls) : Construct(cls, qs1, qs2, param)
    \/ \E nargs \in {3, MaxArgs} :
          \E g \in (IF Len(U) = 1 THEN Garbage \X Garbage ELSE {NoGarbage}) :
             ScoreCall("comb", nargs, g)

SpecComb == InitComb /\ [][NextComb]_vars

(* --------------- calls of every strategy with any arity --------------- *)
\* the data does not matter to the arity check: the largest pool of equal
\* rows
InitArity ==
    /\ InitComb
    /\ clf = [f \in Feat |-> Half]
    /\ U = [i \in 1..MaxU |-> 0]

NextArity ==
    \/ \E cls \in CombinerClasses :
          \E param \in Params(cls) : Construct(cls, "us", "Density", param)
    \/ \E name \in Strategies, nargs \in 0..MaxArgs : ScoreCall(name, nargs, NoGarbage)
    \/ \E name \in Strategies, pick \in Picks : ChooseCall(name, pick)

SpecArity == InitArity /\ [][NextArity]_vars

(* ------------------- the normaliser of the combiners ------------------ *)
NormGrid == {Rat(-1, 1), Zero, Half, One, Rat(2, 1)}

\* the score vectors handed to the normaliser
NormInputs == {Vec(v) : v \in SeqsOf(NormGrid, 1, MaxU + 1)}

\* a combiner of either class is built and a score vector is at hand
InitNorm ==
    /\ U = <<0>>
    /\ L = <<>>
    /\ clf = [f \in Feat |-> Half]
    /\ us = UncertaintySampler_init("LeastConfidence", FALSE)
    /\ \E cls \in CombinerClasses :
          comb = Combiner_init(NoComb, cls, "Random", "Density", Dynamic).comb
    /\ \E scores \in NormInputs :
          ret = Ret("init", "comb", 0, "ok", scores, NoValue, -1, <<>>)
    /\ calls = 0

\* comb._normalize_scores(scores)
Normalize ==
    /\ ret.op = "init" /\ comb.exists
    /\ ret' = Ret("normalize", comb.cls, 1, "ok", ret.arg,
                  IF comb.cls = "CombinedSampler"
                  THEN CombinedSampler_normalize_scores(ret.arg)
                  ELSE DistDivSampler_normalize_scores(ret.arg),
                  -1, <<>>)
    /\ UNCHANGED <<U, L, clf, us, comb, calls>>

NextNorm == Normalize

SpecNorm == InitNorm /\ [][NextNorm]_vars

(* ------------------------------- claims ------------------------------- *)
\* a score or query call on the uncertainty sampler with three arguments
UsCall(r) == r.op \in {"score", "query"} /\ r.target = "us" /\ r.nargs = 3

\* C1: under the driving loop that hands chosen_index over before the next
\* score call, at every subtraction in the wrapper the retained
\* previous_scores is as long as the current U
C1_RetainedMatchesU ==
    \A i \in 1..Len(ret.probe) : ret.probe[i].prev_len = ret.probe[i].u_len

\* a later round: the wrapper has deleted the chosen entry and subtracted
C1_Witness ==
    /\ UsCall(ret) /\ ret.status = "ok"
    /\ us.chosen_index # None
    /\ Len(ret.probe) = 1 /\ ret.probe[1].u_len = Len(U)
    /\ Len(U) < MaxU

\* C2: after query(U, L, clf) on a model-change-enabled uncertainty strategy
\* returns index i, the strategy's chosen_index is i
C2_QueryRecordsChosenIndex ==
    (UsCall(ret) /\ ret.op = "query" /\ ret.status = "ok" /\ us.model_change)
        => us.chosen_index = Some(ret.index)

\* what the corrector is to return in a round after a query chose and the
\* loop removed row ret.index: s_t - (1/|L|) * P with P the vector of the
\* previous call without the chosen entry
C3_Expected ==
    Broadcast(RSub, score_func(us, 3, U, L, clf).value,
              Broadcast(RMul, Scalar(Rat(1, Len(L))),
                        Vec(np_delete(ret.value.v, ret.index))))

\* C3: a wrapped score call returns s_t - (1/|L|) * P, with P zero on the
\* first call and else the previous call's vector without the previously
\* chosen entry, and retains what it returns
C3_CorrectedScore ==
    [][(us.model_change /\ UsCall(ret') /\ ret'.status = "ok")
        => /\ us'.previous_scores = Some(ret'.value)
           /\ ret.op = "init" => ret'.value = score_func(us, 3, U, L, clf).value
           /\ ret.op = "remove" => ret'.value = C3_Expected]_vars

\* C9: a wrapped score call with an empty labeled set fails with
\* ZeroDivisionError and returns no scores
C9_EmptyLabeledSetRaises ==
    (UsCall(ret) /\ us.model_change /\ Len(L) = 0)
        => ret.status = "ZeroDivisionError" /\ ret.value = NoValue

C9_Witness ==
    /\ UsCall(ret) /\ us.model_change /\ Len(L) = 0
    /\ us.cls = "LeastConfidence"
    /\ ret.status = "ZeroDivisionError"

\* C10: U_0_size of a LeastConfidenceDynamicBias is -1 after construction, the
\* first score call that passes the arity check sets it to that call's |U|,
\* and no later step changes it
C10_LatchedOnce ==
    /\ us.cls = "LeastConfidenceDynamicBias" => us.U_0_size = -1
    /\ [][us.cls = "LeastConfidenceDynamicBias"
           => IF us.U_0_size >= 0 THEN us'.U_0_size = us.U_0_size
              ELSE IF UsCall(ret') THEN us'.U_0_size = Len(U)
              ELSE us'.U_0_size = -1]_vars

\* a later score call on a smaller U that left the latch alone
C10_Witness ==
    /\ us.cls = "LeastConfidenceDynamicBias"
    /\ UsCall(ret) /\ ret.status = "ok"
    /\ us.U_0_size = MaxU /\ Len(U) < MaxU

\* a normaliser call and the entries it was given and gave back
Normalized == ret.op = "normalize"
NormArg == ret.arg.v
NormVal == ret.value.v

\* C4: on a score vector with at least two distinct values the normaliser of
\* either combiner returns a vector of the same length with minimum 0,
\* maximum 1, every entry in [0, 1] and the order of the entries preserved
C4_MinMaxNormalized ==
    (Normalized /\ ~AllEqualFirst(NormArg))
        => /\ ret.value.shape = "vector"
           /\ Len(NormVal) = Len(NormArg)
           /\ \E i \in 1..Len(NormVal) : NormVal[i] = Zero
           /\ \E i \in 1..Len(NormVal) : NormVal[i] = One
           /\ \A i \in 1..Len(NormVal) :
                 RLe(Zero, NormVal[i]) /\ RLe(NormVal[i], One)
           /\ \A i, j \in 1..Len(NormVal) :
                 RLt(NormArg[i], NormArg[j]) <=> RLt(NormVal[i], NormVal[j])

\* three distinct values, one of them negative, through CombinedSampler
C4_Witness ==
    /\ Normalized /\ ret.target = "CombinedSampler"
    /\ NormArg = <<Rat(2, 1), Rat(-1, 1), Half>>
    /\ NormVal = <<One, Zero, Half>>

\* C5: a constant score vector comes back unchanged when its value is below
\* 1 and as its elementwise reciprocal, a vector of the same length, when
\* its value is at least 1
C5_ConstantVector ==
    (Normalized /\ AllEqualFirst(NormArg))
        => IF RLt(NormArg[1], One) THEN ret.value = ret.arg
           ELSE ret.value = Vec([i \in 1..Len(NormArg) |-> RDiv(One, NormArg[i])])

\* C6: every score call that returns gives a vector with exactly |U| entries
C6_ScoreLengthIsU ==
    (ret.op = "score" /\ ret.status = "ok")
        => ret.value.shape = "vector" /\ Len(ret.value.v) = Len(U)

\* C7: a combiner constructor given a missing child raises ValueError and
\* builds nothing, so no combiner with a missing child exists at any call
C7_MissingChildAtConstruction ==
    /\ comb.exists => comb.qs1 # "None" /\ comb.qs2 # "None"
    /\ ret.op = "construct" => (ret.status = "ValueError" <=> ~comb.exists)
    /\ ret.op = "construct" => ret.status \in {"ok", "ValueError"}

\* a constructor call that raised
C7_Witness ==
    ret.op = "construct" /\ ret.status = "ValueError" /\ ~comb.exists

\* C8: score with any number of positional arguments other than three raises
\* ValueError on every concrete strategy; score and choose of the abstract
\* base raise NotImplementedError
C8_ArityAndAbstract ==
    /\ (ret.op = "score" /\ ret.target # "QueryStrategy" /\ ret.nargs # 3)
          => ret.status = "ValueError" /\ ret.value = NoValue
    /\ (ret.op \in {"score", "choose"} /\ ret.target = "QueryStrategy")
          => ret.status = "NotImplementedError"

\* a combiner with a dynamic parameter called with one argument too many
C8_Witness ==
    /\ ret.op = "score" /\ ret.target = "comb" /\ ret.nargs = MaxArgs
    /\ comb.exists /\ comb.param.dynamic
    /\ ret.status = "ValueError"

\* C11: a score call that follows a score call on the same strategy, with U,
\* L and the classifier unchanged, returns the same score vector
C11_ScoreIdempotent ==
    [][(/\ ret.op = "score" /\ ret.nargs = 3 /\ ret.status = "ok"
        /\ ret'.op = "score" /\ ret'.nargs = 3 /\ ret'.target = ret.target
        /\ U' = U /\ L' = L /\ clf' = clf /\ comb' = comb)
        => ret'.status = "ok" /\ ret'.value = ret.value]_vars

\* the normalised score n of the one child of a combiner over twins, were
\* the child called alone in the state before the combiner's call
C12_Child(g) == Child_score(comb.qs1, us, 3, U, L, clf, g)
C12_Normalized(g) == CombinedSampler_normalize_scores(C12_Child(g).value)

\* n * n for CombinedSampler with beta = 1, n for DistDivSampler with
\* lambda = 0.5
C12_Reduced(n) ==
    IF comb.cls = "CombinedSampler" THEN Broadcast(RMul, n, n) ELSE n

\* C12: a combiner whose qs1 and qs2 are the same child instance, with
\* beta = 1 or lambda = 0.5, scores n * n (CombinedSampler) or n
\* (DistDivSampler), n being the child's normalised score
C12_TwinChildren ==
    [][(/\ comb.exists /\ comb' = comb
        /\ comb.qs1 = comb.qs2 /\ ~comb.param.dynamic
        /\ ret'.op = "score" /\ ret'.target = "comb" /\ ret'.nargs = 3
        /\ \A g \in Garbage :
              C12_Child(g).status = "ok" /\ Len(C12_Child(g).value.v) > 0)
        => /\ ret'.status = "ok"
           /\ \E g \in Garbage : ret'.value = C12_Reduced(C12_Normalized(g))]_vars

\* C13: a score call on a model-change-enabled uncertainty sampler that
\* fails for a wrong number of arguments or an empty labeled set leaves
\* previous_scores, chosen_index and U_0_size as they were
C13_FailedCallKeepsState ==
    [][(/\ us.model_change
        /\ ret'.op \in {"score", "query"} /\ ret'.target = "us"
        /\ ret'.nargs # 3 \/ Len(L) = 0
        /\ ret'.status # "ok")
        => /\ us'.previous_scores = us.previous_scores
           /\ us'.chosen_index = us.chosen_index
           /\ us'.U_0_size = us.U_0_size]_vars

====
